---------------------------- MODULE Spec2Model ----------------------------
(* Model of time-awwter.py: the chunker (chunked_iterable), the executor   *)
(* (execute_select) and the driver loop of __main__.  The Cassandra store  *)
(* is the environment: every call into the session either returns or      *)
(* raises, chosen nondeterministically.                                    *)
EXTENDS Integers, Sequences, FiniteSets, TLC

(***************************************************************************)
(* Bounds of the model                                                     *)
(***************************************************************************)
MaxKeys == 3
MaxSize == 3
MaxEvents == 2

Keys == {"a", "b"}
ErrTexts == {"timeout"}

\* chunk sizes given on the command line: type=int, negative and zero accepted
Sizes == (0 - MaxSize)..MaxSize

\* x.args of a raised exception: empty, or one message
ErrArgs == {<< >>} \cup {<<t>> : t \in ErrTexts}

KeySeqs == UNION {[1..n -> Keys] : n \in 0..MaxKeys}

\* a key list of five distinct keys, read besides the short lists
ScenarioKeys == <<"a", "b", "c", "d", "e">>

VARIABLES
  keys,         \* primary_keys.pr_keys_list
  size,         \* app_settings.chunk_size
  pos,          \* number of items the iterator `it` has handed out
  chunk,        \* the chunk yielded last (primary_keys of execute_select)
  ci,           \* index in chunk of the loop variable u
  result_list,  \* result_list of execute_select: global indices of the futures
  inflight,     \* queries submitted and not yet completed or failed
  trace,        \* trace.events of the item being printed
  evi,          \* index of the next event of trace to print
  err,          \* x.args of the exception being handled
  pc,           \* position of the single thread of control
  exit_code,    \* -1 while running, else the exit status of the process
  log,          \* history: submissions, awaits and stdout lines, in order
  chunks,       \* history: the chunks yielded so far
  counts        \* history: number of trace events of every key read so far

vars == <<keys, size, pos, chunk, ci, result_list, inflight, trace, evi, err,
          pc, exit_code, log, chunks, counts>>

(***************************************************************************)
(* Helpers                                                                 *)
(***************************************************************************)
Min(a, b) == IF a < b THEN a ELSE b

\* one entry of the history: op is what happened, c the number of the chunk
\* being dispatched, i the position in keys of the key it is about; txt is
\* the error text of a failure line, or the call that raised
Entry(op, c, i, key, q, n, txt) ==
  [op |-> op, c |-> c, i |-> i, key |-> key, q |-> q, n |-> n, txt |-> txt]

\* islice that stops one item early
IsliceShort(s, p, n) == SubSeq(s, p + 1, Min(p + n, Len(s)) - 1)

\* itertools.islice(it, n) for n >= 0 on an iterator that has handed out p items
Islice(s, p, n) == SubSeq(s, p + 1, Min(p + n, Len(s)))

\* global (0-indexed + 1) position in keys of the loop variable u
Gi == pos - Len(chunk) + ci

\* the loop variable u
U == chunk[ci]

\* the trace the store recorded for query q when it has c events
StoreTrace(q, c) == [k \in 1..c |-> [q |-> q, n |-> k]]

(***************************************************************************)
(* Initial state: arguments parsed, key list read, session connected       *)
(***************************************************************************)
Init ==
  /\ keys \in KeySeqs \cup {ScenarioKeys}
  /\ size \in Sizes
  /\ pos = 0
  /\ chunk = << >>
  /\ ci = 0
  /\ result_list = << >>
  /\ inflight = {}
  /\ trace = << >>
  /\ evi = 0
  /\ err = << >>
  /\ pc = "Ready"
  /\ exit_code = -1
  /\ log = << >>
  /\ chunks = << >>
  /\ counts = << >>

(***************************************************************************)
(* Driver loop and chunker: one resumption of the generator                *)
(***************************************************************************)
\* islice rejects a negative stop: ValueError, uncaught, traceback, status 1
NextChunkInvalid ==
  /\ pc \in {"Ready", "Idle"}
  /\ size < 0
  /\ pc' = "Aborted"
  /\ exit_code' = 1
  /\ UNCHANGED <<keys, size, pos, chunk, ci, result_list, inflight, trace,
                 evi, err, log, chunks, counts>>

\* the empty slice does not end the loop: it is echoed and yielded like a chunk
NextChunkEndNoBreak ==
  /\ pc \in {"Ready", "Idle"}
  /\ size >= 0
  /\ Islice(keys, pos, size) = << >>
  /\ chunks' = Append(chunks, << >>)
  /\ log' = Append(log, Entry("echo", Len(chunks) + 1, 0, "", 0, 0, ""))
  /\ pc' = "Idle"
  /\ UNCHANGED <<keys, size, pos, chunk, ci, result_list, inflight, trace,
                 evi, err, exit_code, counts>>

\* empty slice: break, generator exhausted, the for loop and the script end
NextChunkEnd ==
  /\ pc \in {"Ready", "Idle"}
  /\ size >= 0
  /\ Islice(keys, pos, size) = << >>
  /\ pc' = "Done"
  /\ exit_code' = 0
  /\ UNCHANGED <<keys, size, pos, chunk, ci, result_list, inflight, trace,
                 evi, err, log, chunks, counts>>

\* the chunk is yielded without being printed
NextChunkYieldNoEcho ==
  /\ pc \in {"Ready", "Idle"}
  /\ size >= 0
  /\ Islice(keys, pos, size) # << >>
  /\ chunk' = Islice(keys, pos, size)
  /\ pos' = pos + Len(chunk')
  /\ chunks' = Append(chunks, chunk')
  /\ ci' = 1
  /\ pc' = "Submit"
  /\ UNCHANGED <<keys, size, result_list, inflight, trace, evi, err,
                 exit_code, log, counts>>

\* non-empty slice: print(chunk), yield chunk, execute_select is entered
NextChunkYield ==
  /\ pc \in {"Ready", "Idle"}
  /\ size >= 0
  /\ Islice(keys, pos, size) # << >>
  /\ chunk' = Islice(keys, pos, size)
  /\ pos' = pos + Len(chunk')
  /\ chunks' = Append(chunks, chunk')
  /\ log' = Append(log, Entry("echo", Len(chunks) + 1, 0, "", 0, 0, ""))
  /\ ci' = 1
  /\ pc' = "Submit"
  /\ UNCHANGED <<keys, size, result_list, inflight, trace, evi, err,
                 exit_code, counts>>

(***************************************************************************)
(* execute_select                                                          *)
(***************************************************************************)
\* submit every key of the chunk first, await afterwards
SubmitOkBatch ==
  /\ pc = "Submit"
  /\ result_list' = Append(result_list, Gi)
  /\ inflight' = inflight \cup {Gi}
  /\ log' = Append(log, Entry("submit", Len(chunks), Gi, U, 0, 0, ""))
  /\ IF ci < Len(chunk)
       THEN /\ ci' = ci + 1
            /\ pc' = "Submit"
       ELSE /\ ci' = ci
            /\ pc' = "Result"
  /\ UNCHANGED <<keys, size, pos, chunk, trace, evi, err, exit_code,
                 chunks, counts>>

\* result_list = []; result_list.append(session.execute_async(...))
SubmitOk ==
  /\ pc = "Submit"
  /\ result_list' = <<Gi>>
  /\ inflight' = inflight \cup {Gi}
  /\ log' = Append(log, Entry("submit", Len(chunks), Gi, U, 0, 0, ""))
  /\ pc' = "Result"
  /\ UNCHANGED <<keys, size, pos, chunk, ci, trace, evi, err, exit_code,
                 chunks, counts>>

SubmitRaise ==
  /\ pc = "Submit"
  /\ \E x \in ErrArgs : err' = x
  /\ result_list' = << >>
  /\ log' = Append(log, Entry("raise", Len(chunks), Gi, U, 0, 0, "submit"))
  /\ pc' = "Except"
  /\ UNCHANGED <<keys, size, pos, chunk, ci, inflight, trace, evi, exit_code,
                 chunks, counts>>

\* the completed query is still counted as in flight
ResultOkLeak ==
  /\ pc = "Result"
  /\ log' = Append(log, Entry("await", Len(chunks), result_list[1], U, 0, 0, ""))
  /\ pc' = "Trace"
  /\ UNCHANGED <<keys, size, pos, chunk, ci, result_list, inflight, trace, evi,
                 err, exit_code, chunks, counts>>

\* rows = item.result(): blocks until the query completes or fails
ResultOk ==
  /\ pc = "Result"
  /\ inflight' = inflight \ {result_list[1]}
  /\ log' = Append(log, Entry("await", Len(chunks), result_list[1], U, 0, 0, ""))
  /\ pc' = "Trace"
  /\ UNCHANGED <<keys, size, pos, chunk, ci, result_list, trace, evi, err,
                 exit_code, chunks, counts>>

\* a failed query is submitted again
ResultRaiseRetry ==
  /\ pc = "Result"
  /\ \E x \in ErrArgs : err' = x
  /\ inflight' = inflight \ {result_list[1]}
  /\ log' = Append(log, Entry("await", Len(chunks), result_list[1], U, 0, 0, ""))
  /\ pc' = "Submit"
  /\ UNCHANGED <<keys, size, pos, chunk, ci, result_list, trace, evi,
                 exit_code, chunks, counts>>

ResultRaise ==
  /\ pc = "Result"
  /\ \E x \in ErrArgs : err' = x
  /\ inflight' = inflight \ {result_list[1]}
  /\ log' = log \o <<Entry("await", Len(chunks), result_list[1], U, 0, 0, ""),
                      Entry("raise", Len(chunks), Gi, U, 0, 0, "result")>>
  /\ pc' = "Except"
  /\ UNCHANGED <<keys, size, pos, chunk, ci, result_list, trace, evi,
                 exit_code, chunks, counts>>

\* an empty trace is taken for a failure
TraceOkStrict ==
  /\ pc = "Trace"
  /\ \E c \in 0..MaxEvents :
       /\ trace' = StoreTrace(result_list[1], c)
       /\ counts' = Append(counts, c)
       /\ IF c = 0
            THEN /\ pc' = "Except"
                 /\ \E t \in ErrTexts : err' = <<t>>
                 /\ log' = Append(log, Entry("raise", Len(chunks), Gi, U, 0, 0, "trace"))
            ELSE /\ pc' = "Print"
                 /\ UNCHANGED <<err, log>>
  /\ evi' = 1
  /\ UNCHANGED <<keys, size, pos, chunk, ci, result_list, inflight,
                 exit_code, chunks>>

\* the trace is read from the first query of the chunk, not from item
TraceOkWrongItem ==
  /\ pc = "Trace"
  /\ \E c \in 0..MaxEvents :
       /\ trace' = StoreTrace(Gi - ci + 1, c)
       /\ counts' = Append(counts, c)
  /\ evi' = 1
  /\ pc' = "Print"
  /\ UNCHANGED <<keys, size, pos, chunk, ci, result_list, inflight, err,
                 exit_code, log, chunks>>

\* trace = item.get_query_trace(); trace.events
TraceOk ==
  /\ pc = "Trace"
  /\ \E c \in 0..MaxEvents :
       /\ trace' = StoreTrace(result_list[1], c)
       /\ counts' = Append(counts, c)
  /\ evi' = 1
  /\ pc' = "Print"
  /\ UNCHANGED <<keys, size, pos, chunk, ci, result_list, inflight, err,
                 exit_code, log, chunks>>

\* the trace cannot be fetched (raises, or returns None and .events raises)
TraceRaise ==
  /\ pc = "Trace"
  /\ \E x \in ErrArgs : err' = x
  /\ log' = Append(log, Entry("raise", Len(chunks), Gi, U, 0, 0, "trace"))
  /\ pc' = "Except"
  /\ UNCHANGED <<keys, size, pos, chunk, ci, result_list, inflight, trace,
                 evi, exit_code, chunks, counts>>

\* every record carries the first key of the chunk instead of u
PrintEventFirstKey ==
  /\ pc = "Print"
  /\ evi <= Len(trace)
  /\ log' = Append(log, Entry("rec", Len(chunks), Gi, chunk[1], trace[evi].q, trace[evi].n, ""))
  /\ evi' = evi + 1
  /\ UNCHANGED <<keys, size, pos, chunk, ci, result_list, inflight, trace,
                 err, pc, exit_code, chunks, counts>>

\* print(u, e.source_elapsed, e.description)
PrintEvent ==
  /\ pc = "Print"
  /\ evi <= Len(trace)
  /\ log' = Append(log, Entry("rec", Len(chunks), Gi, U, trace[evi].q, trace[evi].n, ""))
  /\ evi' = evi + 1
  /\ UNCHANGED <<keys, size, pos, chunk, ci, result_list, inflight, trace,
                 err, pc, exit_code, chunks, counts>>

\* the event loop is left after the first event
EndItemEarly ==
  /\ pc = "Print"
  /\ evi > Len(trace) \/ evi > 1
  /\ result_list' = << >>
  /\ IF ci < Len(chunk)
       THEN /\ ci' = ci + 1
            /\ pc' = "Submit"
       ELSE /\ ci' = ci
            /\ pc' = "Idle"
  /\ UNCHANGED <<keys, size, pos, chunk, inflight, trace, evi, err,
                 exit_code, log, chunks, counts>>

\* execute_select returns after the first key of the chunk
EndItemReturn ==
  /\ pc = "Print"
  /\ evi > Len(trace)
  /\ result_list' = << >>
  /\ ci' = ci
  /\ pc' = "Idle"
  /\ UNCHANGED <<keys, size, pos, chunk, inflight, trace, evi, err,
                 exit_code, log, chunks, counts>>

\* result_list = []; the inner loop ends; next u, or return to the driver
EndItem ==
  /\ pc = "Print"
  /\ evi > Len(trace)
  /\ result_list' = << >>
  /\ IF ci < Len(chunk)
       THEN /\ ci' = ci + 1
            /\ pc' = "Submit"
       ELSE /\ ci' = ci
            /\ pc' = "Idle"
  /\ UNCHANGED <<keys, size, pos, chunk, inflight, trace, evi, err,
                 exit_code, log, chunks, counts>>

\* the failure is reported and the loop goes on with the next key
HandlerPrintContinue ==
  /\ pc = "Except"
  /\ Len(err) > 0
  /\ log' = Append(log, Entry("fail", Len(chunks), Gi, U, 0, 0, err[1]))
  /\ result_list' = << >>
  /\ IF ci < Len(chunk)
       THEN /\ ci' = ci + 1
            /\ pc' = "Submit"
       ELSE /\ ci' = ci
            /\ pc' = "Idle"
  /\ UNCHANGED <<keys, size, pos, chunk, inflight, trace, evi, err,
                 exit_code, chunks, counts>>

\* except Exception as x: print("... {} ... {}".format(u, x.args[0]))
HandlerPrint ==
  /\ pc = "Except"
  /\ Len(err) > 0
  /\ log' = Append(log, Entry("fail", Len(chunks), Gi, U, 0, 0, err[1]))
  /\ pc' = "Exit"
  /\ UNCHANGED <<keys, size, pos, chunk, ci, result_list, inflight, trace,
                 evi, err, exit_code, chunks, counts>>

\* x.args is empty: x.args[0] raises IndexError inside the handler; nothing
\* is printed on stdout, the interpreter ends with a traceback and status 1
HandlerIndexError ==
  /\ pc = "Except"
  /\ Len(err) = 0
  /\ pc' = "Failed"
  /\ exit_code' = 1
  /\ UNCHANGED <<keys, size, pos, chunk, ci, result_list, inflight, trace,
                 evi, err, log, chunks, counts>>

\* the handler does not exit: the loop goes on with the next key
SysExitContinue ==
  /\ pc = "Exit"
  /\ result_list' = << >>
  /\ IF ci < Len(chunk)
       THEN /\ ci' = ci + 1
            /\ pc' = "Submit"
       ELSE /\ ci' = ci
            /\ pc' = "Idle"
  /\ UNCHANGED <<keys, size, pos, chunk, inflight, trace, evi, err,
                 exit_code, log, chunks, counts>>

\* sys.exit(1)
SysExit ==
  /\ pc = "Exit"
  /\ pc' = "Failed"
  /\ exit_code' = 1
  /\ UNCHANGED <<keys, size, pos, chunk, ci, result_list, inflight, trace,
                 evi, err, log, chunks, counts>>

Next ==
  \/ NextChunkInvalid
  \/ NextChunkEnd
  \/ NextChunkYield
  \/ SubmitOk
  \/ SubmitRaise
  \/ ResultOk
  \/ ResultRaise
  \/ TraceOk
  \/ TraceRaise
  \/ PrintEvent
  \/ EndItem
  \/ HandlerPrint
  \/ HandlerIndexError
  \/ SysExit

Spec == Init /\ [][Next]_vars

\* the single thread keeps running and every submitted query completes or fails
FairSpec == Spec /\ WF_vars(Next)

(***************************************************************************)
(* Readings of the history                                                 *)
(***************************************************************************)
IsOutputLine(e) == e.op \in {"rec", "fail"}
IsFailLine(e) == e.op = "fail"
IsRaise(e) == e.op = "raise"

\* the records and failure reports written to stdout, chunk echoes left out
Reports == SelectSeq(log, IsOutputLine)
FailLines == SelectSeq(log, IsFailLine)
Raised == SelectSeq(log, IsRaise)

RECURSIVE Concat(_)
Concat(ss) == IF ss = << >> THEN << >> ELSE Head(ss) \o Concat(Tail(ss))

\* number of keys in the chunks before chunk c
Offset(c) == Len(Concat(SubSeq(chunks, 1, c - 1)))

\* positions in keys of the keys of chunk c
ChunkRange(c) == (Offset(c) + 1)..(Offset(c) + Len(chunks[c]))

\* the records of key i when its query succeeded with n trace events
KeyRecords(c, i, n) == [k \in 1..n |-> Entry("rec", c, i, keys[i], i, k, "")]

\* number of the chunk that holds position i of keys
ChunkOf(i) == CHOOSE c \in 1..Len(chunks) : i \in ChunkRange(c)

\* the records of keys from..to, every one read with counts[i] events
RECURSIVE RecordsOf(_, _)
RecordsOf(from, to) ==
  IF to < from THEN << >>
  ELSE RecordsOf(from, to - 1) \o KeyRecords(ChunkOf(to), to, counts[to])

Dispatching == {"Submit", "Result", "Trace", "Print", "Except", "Exit"}
Terminal == {"Done", "Failed", "Aborted"}

(***************************************************************************)
(* C1: fail-fast over the whole run.  When the run has ended on the        *)
(* failure of key j (the first failing key), stdout holds all records of   *)
(* keys 0..j-1, then exactly one error report for key j, and nothing for   *)
(* any later key.                                                          *)
(***************************************************************************)
C1_FailFastReport ==
  pc = "Failed" =>
    LET before == RecordsOf(1, Gi - 1) IN
      /\ Len(Reports) = Len(before) + 1
      /\ SubSeq(Reports, 1, Len(before)) = before
      /\ Reports[Len(Reports)].op = "fail"
      /\ Reports[Len(Reports)].i = Gi
      /\ Reports[Len(Reports)].key = keys[Gi]

(***************************************************************************)
(* C2: for every chunk size n >= 1 the yielded chunks, concatenated in     *)
(* yield order, are the keys consumed so far in original order (all keys   *)
(* once the chunker is exhausted), no chunk is empty and every chunk       *)
(* except possibly the last has length exactly n.                          *)
(***************************************************************************)
C2_ChunksPartition ==
  size >= 1 =>
    /\ Concat(chunks) = SubSeq(keys, 1, pos)
    /\ \A c \in 1..Len(chunks) : chunks[c] # << >>
    /\ \A c \in 1..Len(chunks) :
         (c < Len(chunks) \/ pos < Len(keys)) => Len(chunks[c]) = size
    /\ pc = "Done" => Concat(chunks) = keys

\* the chunker was consumed to its end and the last chunk came out short
C2_Witness ==
  /\ pc = "Done"
  /\ size >= 2
  /\ Len(chunks) >= 2
  /\ Len(chunks[Len(chunks)]) < size

(***************************************************************************)
(* C3 as stated: the query of every key of the chunk is submitted before   *)
(* any query of that chunk is awaited.                                     *)
(***************************************************************************)
Submitted(i) == \E p \in 1..Len(log) : log[p].op = "submit" /\ log[p].i = i

C3_SubmitAllBeforeAwait ==
  pc = "Result" => \A i \in ChunkRange(Len(chunks)) : Submitted(i)

IsSubmit(e) == e.op = "submit"
IsAwait(e) == e.op = "await"
Submits == SelectSeq(log, IsSubmit)
Awaits == SelectSeq(log, IsAwait)

(***************************************************************************)
(* C3 amended: within a chunk keys are dispatched one at a time.  The      *)
(* query of a key is submitted only after the query of every prior key of  *)
(* the same chunk has been awaited, and the queries are awaited one by one *)
(* in submission order.                                                    *)
(***************************************************************************)
C3_SubmitAfterPriorAwaited ==
  /\ \A p \in 1..Len(log) : \A q \in 1..(p - 1) :
       (log[p].op = "submit" /\ log[q].op = "submit" /\ log[p].c = log[q].c)
         => \E r \in (q + 1)..(p - 1) :
              log[r].op = "await" /\ log[r].i = log[q].i
  /\ Len(Awaits) <= Len(Submits)
  /\ \A k \in 1..Len(Awaits) : Awaits[k].i = Submits[k].i

\* the second key of a chunk has been submitted and is being awaited
C3_Witness ==
  /\ pc = "Result"
  /\ ci >= 2
  /\ Len(Awaits) >= 1

(***************************************************************************)
(* C4: with chunk size n >= 1 the number of queries in flight is at most   *)
(* n, and every query in flight belongs to the chunk being dispatched.     *)
(***************************************************************************)
C4_InFlightBounded ==
  size >= 1 =>
    /\ Cardinality(inflight) <= size
    /\ inflight # {} =>
         /\ pc \in Dispatching
         /\ inflight \subseteq ChunkRange(Len(chunks))

\* a query of the second chunk is in flight
C4_Witness ==
  /\ size >= 1
  /\ Len(chunks) >= 2
  /\ inflight # {}

(***************************************************************************)
(* C5: for a chunk of m keys whose queries all succeed with counts         *)
(* c_1..c_m, exactly sum(c_i) records are emitted for the chunk, the       *)
(* records of a key form one contiguous block and the blocks come in the   *)
(* keys' submission order, which is the order of the keys in the chunk.    *)
(***************************************************************************)
RecordsOfChunk(c) ==
  LET Test(e) == e.op = "rec" /\ e.c = c IN SelectSeq(log, Test)

SubmitsOfChunk(c) ==
  LET Test(e) == e.op = "submit" /\ e.c = c IN SelectSeq(log, Test)

C5_ChunkRecordsInOrder ==
  \A c \in 1..Len(chunks) :
    (c < Len(chunks) \/ pc \in {"Idle", "Done"}) =>
      /\ RecordsOfChunk(c) = RecordsOf(Offset(c) + 1, Offset(c) + Len(chunks[c]))
      /\ Len(SubmitsOfChunk(c)) = Len(chunks[c])
      /\ \A k \in 1..Len(chunks[c]) :
           /\ SubmitsOfChunk(c)[k].i = Offset(c) + k
           /\ SubmitsOfChunk(c)[k].key = chunks[c][k]

\* a chunk of two keys or more has completed, its last two keys with events
C5_Witness ==
  /\ pc = "Idle"
  /\ Len(chunk) >= 2
  /\ counts[pos] >= 1
  /\ counts[pos - 1] >= 2

(***************************************************************************)
(* C6: for every chunk size n <= 0 and every key sequence, chunking fails  *)
(* with an invalid-argument error and yields no chunk.                     *)
(***************************************************************************)
C6_NonPositiveSizeFails ==
  (size <= 0 /\ pc # "Ready") => (pc = "Aborted" /\ chunks = << >>)

(***************************************************************************)
(* C7: whenever a step of a key's lookup fails, whatever the shape of the  *)
(* error, the run has printed exactly one failure line with the offending  *)
(* key and the error text by the time it ends with a non-zero status.      *)
(***************************************************************************)
C7_FailureLineThenExit ==
  /\ Len(FailLines) <= 1
  /\ (Raised # << >> /\ exit_code # -1) =>
       /\ exit_code = 1
       /\ Len(FailLines) = 1
       /\ FailLines[1].i = Raised[1].i
       /\ FailLines[1].key = keys[Raised[1].i]
       /\ err # << >> => FailLines[1].txt = err[1]

(***************************************************************************)
(* C8: chunks are processed strictly in input order without cross-chunk    *)
(* concurrency.  When chunk N+1 is produced (and echoed) every key of      *)
(* chunk N has been submitted, awaited and has had all its records         *)
(* emitted; every query belongs to the chunk produced last.                *)
(***************************************************************************)
RecordsBefore(p, i) ==
  Cardinality({q \in 1..(p - 1) : log[q].op = "rec" /\ log[q].i = i})

C8_ChunksSequential ==
  /\ \A p \in 1..Len(log) :
       log[p].op \in {"submit", "await", "rec"} =>
         /\ log[p].i \in ChunkRange(log[p].c)
         /\ \A q \in 1..(p - 1) : log[q].op = "echo" => log[q].c <= log[p].c
  /\ \A p \in 1..Len(log) :
       (log[p].op = "echo" /\ log[p].c > 1) =>
         \A i \in ChunkRange(log[p].c - 1) :
           /\ \E q \in 1..(p - 1) : log[q].op = "submit" /\ log[q].i = i
           /\ \E q \in 1..(p - 1) : log[q].op = "await" /\ log[q].i = i
           /\ i <= Len(counts)
           /\ RecordsBefore(p, i) = counts[i]
           /\ \A q \in (p + 1)..Len(log) : log[q].i # i
  /\ \A c \in 1..Len(chunks) :
       chunks[c] = SubSeq(keys, Offset(c) + 1, Offset(c) + Len(chunks[c]))

\* a query of the second chunk was submitted after a first chunk of two keys
C8_Witness ==
  /\ Len(chunks) >= 2
  /\ Len(chunks[1]) >= 2
  /\ pc = "Result"

(***************************************************************************)
(* C9: a query that succeeds with zero trace events emits no record for    *)
(* its key, is no error (no failure line, no exit), and the run goes on    *)
(* with the next key in order.                                             *)
(***************************************************************************)
Attempted(i) ==
  \E p \in 1..Len(log) : log[p].op \in {"submit", "raise"} /\ log[p].i = i

C9_EmptyTraceIsSuccess ==
  \A i \in 1..Len(counts) :
    counts[i] = 0 =>
      /\ \A p \in 1..Len(log) :
           log[p].op \in {"rec", "fail", "raise"} => log[p].i # i
      /\ (pc \in Terminal /\ i < Len(keys)) => Attempted(i + 1)
      /\ (pc \in Terminal /\ i = Len(keys)) => (pc = "Done" /\ exit_code = 0)

\* a key had an empty trace and the next key has been submitted
C9_Witness ==
  \E i \in 1..Len(counts) : counts[i] = 0 /\ Submitted(i + 1)

(***************************************************************************)
(* C10: for chunk size n >= 1, when every submitted query completes or     *)
(* fails, the driver goes Ready -> Dispatching -> Idle -> Dispatching ...  *)
(* and eventually reaches a terminal state: Done exactly when no query     *)
(* failed, after every key was processed, Failed exactly when one failed;  *)
(* Failed is entered from Dispatching only and nothing happens after Done  *)
(* or Failed.                                                              *)
(***************************************************************************)
DriverState == IF pc \in Dispatching THEN "Dispatching" ELSE pc

DriverStep ==
  /\ DriverState = "Ready" =>
       DriverState' \in {"Dispatching"} \cup (IF keys = << >> THEN {"Done"} ELSE {})
  /\ DriverState = "Dispatching" => DriverState' \in {"Dispatching", "Idle", "Failed"}
  /\ DriverState = "Idle" => DriverState' \in {"Dispatching", "Done"}
  /\ DriverState \in {"Done", "Failed"} => FALSE

C10_DriverTerminates ==
  /\ [](size >= 1 => <>(pc \in {"Done", "Failed"}))
  /\ [](size >= 1 =>
         /\ pc = "Done" =>
              /\ Raised = << >>
              /\ Len(counts) = Len(keys)
              /\ \A i \in 1..Len(keys) : Submitted(i)
              /\ exit_code = 0
         /\ pc = "Failed" => (Raised # << >> /\ exit_code = 1)
         /\ Raised # << >> => pc \in {"Except", "Exit", "Failed"})
  /\ [][size >= 1 => DriverStep]_vars

\* the run failed in its second chunk, after one pass through Idle
C10_Witness ==
  /\ size >= 1
  /\ pc = "Failed"
  /\ Len(chunks) >= 2

(***************************************************************************)
(* C11: over a whole run in which every query succeeds (chunk size n >= 1, *)
(* so that every key is queried), the keys on the emitted records, read in *)
(* output order across all chunks, are the original key sequence with key  *)
(* i repeated c_i times.  With keys [a,b,c,d,e], chunk size 2 and one      *)
(* event each the chunks are [a,b],[c,d],[e] and the output is 5 records   *)
(* in order a,b,c,d,e.                                                     *)
(***************************************************************************)
IsRecord(e) == e.op = "rec"
Records == SelectSeq(log, IsRecord)
RecordKeys == [k \in 1..Len(Records) |-> Records[k].key]

\* ks[1] n[1] times, then ks[2] n[2] times, ...
RECURSIVE Repeated(_, _)
Repeated(ks, ns) ==
  IF ks = << >> THEN << >>
  ELSE [k \in 1..Head(ns) |-> Head(ks)] \o Repeated(Tail(ks), Tail(ns))

OneEventEach == \A i \in 1..Len(counts) : counts[i] = 1

C11_RunRecordsFollowKeys ==
  (size >= 1 /\ pc = "Done") =>
    /\ Len(counts) = Len(keys)
    /\ RecordKeys = Repeated(keys, counts)
    /\ (keys = ScenarioKeys /\ size = 2 /\ OneEventEach) =>
         /\ chunks = << <<"a", "b">>, <<"c", "d">>, <<"e">> >>
         /\ Len(Records) = 5
         /\ RecordKeys = <<"a", "b", "c", "d", "e">>

\* the five-key scenario has run to its end with one event per key
C11_Witness ==
  /\ pc = "Done"
  /\ keys = ScenarioKeys
  /\ size = 2
  /\ Len(counts) = 5
  /\ OneEventEach

(***************************************************************************)
(* C12: keys are not deduplicated and outcomes are not retried.  No key    *)
(* occurrence is ever submitted more than once, and in a run with no       *)
(* failure (chunk size n >= 1) the number of queries submitted is the      *)
(* number of key occurrences: a key occurring k times is queried and read  *)
(* k times.                                                                *)
(***************************************************************************)
Occurrences(v) == Cardinality({i \in 1..Len(keys) : keys[i] = v})
SubmitsOfKey(v) == Cardinality({p \in 1..Len(Submits) : Submits[p].key = v})
KeyValues == {keys[i] : i \in 1..Len(keys)}

C12_NoDedupNoRetry ==
  /\ \A p \in 1..Len(Submits) : \A q \in 1..Len(Submits) :
       p # q => Submits[p].i # Submits[q].i
  /\ \A p \in 1..Len(Submits) :
       /\ Submits[p].i \in 1..Len(keys)
       /\ Submits[p].key = keys[Submits[p].i]
  /\ (size >= 1 /\ pc = "Done") =>
       /\ Len(Submits) = Len(keys)
       /\ Len(Awaits) = Len(keys)
       /\ Len(counts) = Len(keys)
       /\ \A v \in KeyValues : SubmitsOfKey(v) = Occurrences(v)

\* a run over a key list that holds the same key twice has ended normally
C12_Witness ==
  /\ pc = "Done"
  /\ size >= 1
  /\ \E v \in KeyValues : Occurrences(v) >= 2 /\ SubmitsOfKey(v) >= 2

(***************************************************************************)
(* C13: for every finite key sequence and every integer chunk size,        *)
(* size <= 0 included, consuming the chunker terminates: the run reaches   *)
(* a terminal state and the chunker never yields more chunks than there    *)
(* are keys.                                                               *)
(***************************************************************************)
C13_ChunkerTerminates ==
  /\ <>(pc \in Terminal)
  /\ [](Len(chunks) <= Len(keys))
  /\ [](size <= 0 => chunks = << >>)

\* the chunker has been consumed with a chunk size of zero or less
C13_Witness ==
  /\ size <= 0
  /\ keys # << >>
  /\ pc \in Terminal

(***************************************************************************)
(* C14: trace correlation.  Every emitted record (k, elapsed, description) *)
(* carries an event of the trace of the query that was bound to key k,     *)
(* never of another key's query, and the records of one key appear in the  *)
(* order in which the store reports that query's events, one per event.    *)
(***************************************************************************)
SubmittedBefore(p, i, key) ==
  \E q \in 1..(p - 1) :
    log[q].op = "submit" /\ log[q].i = i /\ log[q].key = key

C14_TraceCorrelation ==
  /\ \A p \in 1..Len(log) :
       log[p].op = "rec" =>
         /\ log[p].q = log[p].i
         /\ log[p].key = keys[log[p].i]
         /\ SubmittedBefore(p, log[p].q, log[p].key)
         /\ log[p].i <= Len(counts)
         /\ log[p].n = RecordsBefore(p, log[p].i) + 1
         /\ log[p].n <= counts[log[p].i]
  /\ \A i \in 1..Len(counts) :
       (i < Len(counts) \/ pc \in {"Submit", "Idle", "Done"}) =>
         RecordsBefore(Len(log) + 1, i) = counts[i]

\* the second key of a chunk has had two events printed
C14_Witness ==
  /\ pc = "Print"
  /\ ci >= 2
  /\ evi >= 3

(***************************************************************************)
(* C15: a query whose rows are obtained but whose trace retrieval fails is *)
(* treated like a failed query: when the run has ended, no record was      *)
(* emitted for that key, one failure line naming the key was printed, the  *)
(* exit status is non-zero and no later key was processed.                 *)
(***************************************************************************)
TraceFailed(i) ==
  \E p \in 1..Len(log) :
    log[p].op = "raise" /\ log[p].txt = "trace" /\ log[p].i = i

C15_TraceFailureIsFatal ==
  \A i \in 1..Len(keys) :
    (TraceFailed(i) /\ exit_code # -1) =>
      /\ exit_code = 1
      /\ \A p \in 1..Len(log) : log[p].op = "rec" => log[p].i # i
      /\ Len(FailLines) = 1
      /\ FailLines[1].i = i
      /\ FailLines[1].key = keys[i]
      /\ \A p \in 1..Len(log) : log[p].i <= i

(***************************************************************************)
(* C16: when the query of key j fails the run terminates without           *)
(* processing any further key.  No query is ever submitted for a key after *)
(* j, neither for the rest of its chunk nor for later chunks, and no later *)
(* chunk is produced or echoed.                                            *)
(***************************************************************************)
C16_NothingAfterFailure ==
  \A p \in 1..Len(log) :
    log[p].op = "raise" =>
      /\ pc \in {"Except", "Exit", "Failed"}
      /\ Gi = log[p].i
      /\ \A q \in 1..Len(log) : log[q].i <= log[p].i
      /\ \A q \in (p + 1)..Len(log) : log[q].op = "fail"
      /\ Len(chunks) = log[p].c
      /\ pos = Offset(log[p].c) + Len(chunks[log[p].c])

\* the run ended on a failure with keys left in the chunk and in the list
C16_Witness ==
  /\ pc = "Failed"
  /\ ci < Len(chunk)
  /\ pos < Len(keys)

(***************************************************************************)
(* C17: execution is strictly sequential per key.  At most one query is in *)
(* flight; the query of the next key is submitted only after the previous  *)
(* key's query has completed and all of that key's records have been       *)
(* emitted; when a failure is handled and reported no query is in flight.  *)
(***************************************************************************)
AwaitedKey(i) == \E p \in 1..Len(log) : log[p].op = "await" /\ log[p].i = i

C17_OneQueryAtATime ==
  /\ Cardinality(inflight) <= 1
  /\ Len(result_list) <= 1
  /\ inflight # {} => (pc = "Result" /\ inflight = {Gi})
  /\ pc = "Submit" =>
       /\ inflight = {}
       /\ Len(counts) = Gi - 1
       /\ \A i \in 1..(Gi - 1) :
            /\ AwaitedKey(i)
            /\ RecordsBefore(Len(log) + 1, i) = counts[i]
  /\ pc \in {"Except", "Exit", "Failed"} => inflight = {}

\* a failure line was printed for the second key of a chunk, after the
\* first key's records
C17_Witness ==
  /\ pc = "Exit"
  /\ ci >= 2
  /\ counts[Len(counts)] >= 1

(***************************************************************************)
(* C18: chunk echo ordering.  Each produced chunk is echoed exactly once,  *)
(* after every record of the previous chunk and before the first query     *)
(* submission and first record of its own keys; a chunk is echoed only if  *)
(* every key of all earlier chunks succeeded; for an empty key sequence    *)
(* nothing is echoed, no query is submitted and the run ends normally      *)
(* (whenever the chunk size is one islice accepts, n >= 0).                *)
(***************************************************************************)
IsEcho(e) == e.op = "echo"
Echoes == SelectSeq(log, IsEcho)

C18_EchoOrdering ==
  /\ Len(Echoes) = Len(chunks)
  /\ \A k \in 1..Len(Echoes) : Echoes[k].c = k
  /\ \A p \in 1..Len(log) :
       log[p].op = "echo" =>
         /\ \A q \in 1..(p - 1) : log[q].c < log[p].c
         /\ \A q \in (p + 1)..Len(log) : log[q].c >= log[p].c
         /\ \A q \in 1..Len(log) :
              log[q].i \in ChunkRange(log[p].c) => q > p
         /\ \A q \in 1..(p - 1) : log[q].op # "raise"
         /\ \A i \in 1..Offset(log[p].c) :
              /\ i <= Len(counts)
              /\ AwaitedKey(i)
              /\ RecordsBefore(p, i) = counts[i]
  /\ keys = << >> =>
       /\ log = << >>
       /\ chunks = << >>
       /\ (size >= 0 /\ pc \in Terminal) => (pc = "Done" /\ exit_code = 0)

\* a record of the second chunk was printed after the first chunk's records
C18_Witness ==
  /\ Len(chunks) >= 2
  /\ pc = "Print"
  /\ evi >= 2
  /\ counts[1] >= 1

\* the run over an empty key list has ended
C18_EmptyRunEnded ==
  /\ keys = << >>
  /\ size >= 1
  /\ pc = "Done"

=============================================================================
